---- MODULE Spec2Model ----
(***************************************************************************)
(* Model of the Chat wrapper component (src/src/components/Chat.js).       *)
(* The component keeps a small state record (channel, startedOffline,      *)
(* isOnline, connectionRecovering), observes three client events, queries  *)
(* NetInfo once at mount and then listens to reachability changes.         *)
(*                                                                         *)
(* JS values: isOnline is 'unknown' | true | false in the source and is    *)
(* written here as the strings "unknown" | "true" | "false"; the other     *)
(* flags are booleans.  this.setState(partial) is the merge of the partial *)
(* record into the state, read back by the next getContext().  The host    *)
(* takes it from an instance it holds (constructed, or mounted) and drops  *)
(* it, with a warning, on an unmounted instance and on an instance whose   *)
(* constructor threw.                                                      *)
(***************************************************************************)
EXTENDS Naturals, Sequences, FiniteSets

VARIABLES
    storage,              \* props.storage: "none" | "LocalStorage" | "other"
    wsConnection,         \* props.client.wsConnection != null
    phase,                \* "constructed" | "failed" | "mounted" | "unmounted"
    channel,              \* state.channel
    startedOffline,       \* state.startedOffline
    isOnline,             \* state.isOnline
    connectionRecovering, \* state.connectionRecovering
    unsubscribeNetInfo,   \* this.unsubscribeNetInfo: "null" | "handle"
    unmounted,            \* this._unmounted (undefined is falsy: FALSE)
    listeners,            \* event names with an observer on the client
    fetchState,           \* NetInfo.fetch(): "idle" | "pending" | "resolved"
    fetchResult,          \* value the fetch resolved with
    netSubscribed,        \* the NetInfo listener of the component is active
    netLog,               \* reachability callbacks run, with the calls each made
    clientCalls,          \* calls made on the client, in order
    closeCalls,           \* number of storage.close() calls
    threw,                \* componentWillUnmount raised a TypeError
    lastEvent,            \* most recent client event delivered to a handler
    lastCall              \* most recent operation run, with its argument

vars == <<storage, wsConnection, phase, channel, startedOffline, isOnline,
          connectionRecovering, unsubscribeNetInfo, unmounted, listeners,
          fetchState, fetchResult, netSubscribed, netLog, clientCalls,
          closeCalls, threw, lastEvent, lastCall>>

\* Number of reachability-change callbacks delivered in one session.
MaxNetChanges == 3

\* Channel handles a consumer may select (non-null).
Channels == {"c1", "c2"}

\* The channel placeholder of the constructor: {}.
EmptyChannel == "empty"

StorageArgs == {"none", "LocalStorage", "other"}

EventNames == {"connection.changed", "connection.established",
               "connection.recovered"}

JsBool(b) == IF b THEN "true" ELSE "false"

----------------------------------------------------------------------------
\* Pure parts of the component.

\* verifyStorage: TRUE when it returns, FALSE when it throws.
verifyStorage(s) == (s = "none") \/ (s = "LocalStorage")

\* A JS value used as a condition.
Truthy(v) == v = "true"

\* isOfflineModeEnabled: storage && storage instanceof LocalStorage.  The
\* value of a && b is a itself when a is falsy: undefined without storage.
isOfflineModeEnabled ==
    IF storage = "none" THEN "undefined"
    ELSE JsBool(storage = "LocalStorage")

\* this.setState takes effect: the host holds the instance.  After
\* componentWillUnmount, and after a constructor that threw, it is dropped.
SetStateTakesEffect == phase \in {"constructed", "mounted"}

\* notifyChatClient: the calls it makes on the client.
notifyChatClientSwapped(isConnected) ==
    IF wsConnection
    THEN IF isConnected THEN <<"offline">> ELSE <<"online">>
    ELSE <<>>

notifyChatClient(isConnected) ==
    IF wsConnection
    THEN IF isConnected THEN <<"online">> ELSE <<"offline">>
    ELSE <<>>

\* The setState of the 'connection.changed' observer.
ConnectionChangedStateNoNegation(online) ==
    [isOnline |-> JsBool(online), connectionRecovering |-> online]

ConnectionChangedState(online) ==
    [isOnline |-> JsBool(online), connectionRecovering |-> ~online]

\* The setState of the NetInfo.fetch().then callback.
FetchThenStateNoNegation(isConnected) ==
    [isOnline |-> JsBool(isConnected), startedOffline |-> isConnected]

FetchThenState(isConnected) ==
    [isOnline |-> JsBool(isConnected), startedOffline |-> ~isConnected]

\* The reachability listener: the calls it makes on the client.
NetInfoListenerCallsOneShot(isConnected) ==
    IF isConnected /\ startedOffline
       /\ ~(\E i \in DOMAIN netLog : netLog[i].calls = <<"setup">>)
    THEN <<"setup">>
    ELSE notifyChatClient(isConnected)

NetInfoListenerCalls(isConnected) ==
    IF isConnected /\ startedOffline
    THEN <<"setup">>
    ELSE notifyChatClient(isConnected)

\* setActiveChannel: the channel of the state after the call, when its
\* setState takes effect.
SetActiveChannelStateKeepFirst(ch) ==
    IF unmounted THEN channel
    ELSE IF channel = EmptyChannel THEN ch ELSE channel

SetActiveChannelState(ch) ==
    IF unmounted THEN channel ELSE ch

\* getContext: the published snapshot (client, setActiveChannel and logger
\* are fixed references and are left out).
getContext ==
    [channel |-> channel,
     isOnline |-> isOnline,
     connectionRecovering |-> connectionRecovering,
     storage |-> storage,
     offlineMode |-> isOfflineModeEnabled]

----------------------------------------------------------------------------
\* State after the constructor has run (or has thrown in verifyStorage).
Init ==
    /\ storage \in StorageArgs
    /\ wsConnection \in BOOLEAN
    /\ phase = (IF verifyStorage(storage) THEN "constructed" ELSE "failed")
    /\ channel = EmptyChannel
    /\ startedOffline = TRUE
    /\ isOnline = "unknown"
    /\ connectionRecovering = FALSE
    /\ unsubscribeNetInfo = "null"
    /\ unmounted = FALSE
    /\ listeners = EventNames
    /\ fetchState = "idle"
    /\ fetchResult = FALSE
    /\ netSubscribed = FALSE
    /\ netLog = <<>>
    /\ clientCalls = <<>>
    /\ closeCalls = 0
    /\ threw = FALSE
    /\ lastEvent = "none"
    /\ lastCall = [op |-> "constructor", arg |-> "none"]

\* componentDidMount: setConnectionListener starts NetInfo.fetch().
componentDidMount ==
    /\ phase = "constructed"
    /\ phase' = "mounted"
    /\ fetchState' = "pending"
    /\ lastCall' = [op |-> "componentDidMount", arg |-> "none"]
    /\ UNCHANGED <<storage, wsConnection, channel, startedOffline, isOnline,
                   connectionRecovering, unsubscribeNetInfo, unmounted,
                   listeners, fetchResult, netSubscribed, netLog, clientCalls,
                   closeCalls, threw, lastEvent>>

\* The callback of NetInfo.fetch().then in setConnectionListener.
NetInfoFetchThenDirectWrite(isConnected) ==
    /\ fetchState = "pending"
    /\ fetchState' = "resolved"
    /\ fetchResult' = isConnected
    /\ isOnline' = FetchThenState(isConnected).isOnline
    /\ startedOffline' = FetchThenState(isConnected).startedOffline
    /\ clientCalls' = clientCalls \o notifyChatClient(isConnected)
    /\ unsubscribeNetInfo' = "handle"
    /\ netSubscribed' = TRUE
    /\ lastCall' = [op |-> "NetInfoFetchThen", arg |-> JsBool(isConnected)]
    /\ UNCHANGED <<storage, wsConnection, phase, channel, connectionRecovering,
                   unmounted, listeners, netLog, closeCalls, threw, lastEvent>>

NetInfoFetchThenNoNotify(isConnected) ==
    /\ fetchState = "pending"
    /\ fetchState' = "resolved"
    /\ fetchResult' = isConnected
    /\ IF SetStateTakesEffect
       THEN /\ isOnline' = FetchThenState(isConnected).isOnline
            /\ startedOffline' = FetchThenState(isConnected).startedOffline
       ELSE UNCHANGED <<isOnline, startedOffline>>
    /\ unsubscribeNetInfo' = "handle"
    /\ netSubscribed' = TRUE
    /\ lastCall' = [op |-> "NetInfoFetchThen", arg |-> JsBool(isConnected)]
    /\ UNCHANGED <<storage, wsConnection, phase, channel, connectionRecovering,
                   unmounted, listeners, netLog, clientCalls, closeCalls,
                   threw, lastEvent>>

NetInfoFetchThen(isConnected) ==
    /\ fetchState = "pending"
    /\ fetchState' = "resolved"
    /\ fetchResult' = isConnected
    /\ IF SetStateTakesEffect
       THEN /\ isOnline' = FetchThenState(isConnected).isOnline
            /\ startedOffline' = FetchThenState(isConnected).startedOffline
       ELSE UNCHANGED <<isOnline, startedOffline>>
    /\ clientCalls' = clientCalls \o notifyChatClient(isConnected)
    /\ unsubscribeNetInfo' = "handle"
    /\ netSubscribed' = TRUE
    /\ lastCall' = [op |-> "NetInfoFetchThen", arg |-> JsBool(isConnected)]
    /\ UNCHANGED <<storage, wsConnection, phase, channel, connectionRecovering,
                   unmounted, listeners, netLog, closeCalls, threw, lastEvent>>

\* The listener passed to NetInfo.addEventListener.
NetInfoListenerSetsOnline(isConnected) ==
    /\ netSubscribed
    /\ Len(netLog) < MaxNetChanges
    /\ netLog' = Append(netLog, [isConnected |-> isConnected,
                                 calls |-> NetInfoListenerCalls(isConnected)])
    /\ clientCalls' = clientCalls \o NetInfoListenerCalls(isConnected)
    /\ isOnline' = JsBool(isConnected)
    /\ lastCall' = [op |-> "NetInfoListener", arg |-> JsBool(isConnected)]
    /\ UNCHANGED <<storage, wsConnection, phase, channel, startedOffline,
                   connectionRecovering, unsubscribeNetInfo,
                   unmounted, listeners, fetchState, fetchResult,
                   netSubscribed, closeCalls, threw, lastEvent>>

NetInfoListener(isConnected) ==
    /\ netSubscribed
    /\ Len(netLog) < MaxNetChanges
    /\ netLog' = Append(netLog, [isConnected |-> isConnected,
                                 calls |-> NetInfoListenerCalls(isConnected)])
    /\ clientCalls' = clientCalls \o NetInfoListenerCalls(isConnected)
    /\ lastCall' = [op |-> "NetInfoListener", arg |-> JsBool(isConnected)]
    /\ UNCHANGED <<storage, wsConnection, phase, channel, startedOffline,
                   isOnline, connectionRecovering, unsubscribeNetInfo,
                   unmounted, listeners, fetchState, fetchResult,
                   netSubscribed, closeCalls, threw, lastEvent>>

\* The observer of 'connection.changed'.
OnConnectionChanged(online) ==
    /\ "connection.changed" \in listeners
    /\ lastEvent' = (IF online THEN "changed_true" ELSE "changed_false")
    /\ lastCall' = [op |-> "connection.changed", arg |-> JsBool(online)]
    /\ IF unmounted \/ ~SetStateTakesEffect
       THEN UNCHANGED <<isOnline, connectionRecovering>>
       ELSE /\ isOnline' = ConnectionChangedState(online).isOnline
            /\ connectionRecovering' =
                   ConnectionChangedState(online).connectionRecovering
    /\ UNCHANGED <<storage, wsConnection, phase, channel, startedOffline,
                   unsubscribeNetInfo, unmounted, listeners, fetchState,
                   fetchResult, netSubscribed, netLog, clientCalls,
                   closeCalls, threw>>

\* The observer of 'connection.established'.
OnConnectionEstablished ==
    /\ "connection.established" \in listeners
    /\ lastEvent' = "established"
    /\ lastCall' = [op |-> "connection.established", arg |-> "none"]
    /\ IF unmounted \/ ~SetStateTakesEffect
       THEN UNCHANGED <<isOnline, connectionRecovering>>
       ELSE /\ isOnline' = "true"
            /\ connectionRecovering' = FALSE
    /\ UNCHANGED <<storage, wsConnection, phase, channel, startedOffline,
                   unsubscribeNetInfo, unmounted, listeners, fetchState,
                   fetchResult, netSubscribed, netLog, clientCalls,
                   closeCalls, threw>>

\* The observer of 'connection.recovered'.
OnConnectionRecovered ==
    /\ "connection.recovered" \in listeners
    /\ lastEvent' = "recovered"
    /\ lastCall' = [op |-> "connection.recovered", arg |-> "none"]
    /\ IF unmounted \/ ~SetStateTakesEffect
       THEN UNCHANGED <<isOnline, connectionRecovering>>
       ELSE /\ isOnline' = "true"
            /\ connectionRecovering' = FALSE
    /\ UNCHANGED <<storage, wsConnection, phase, channel, startedOffline,
                   unsubscribeNetInfo, unmounted, listeners, fetchState,
                   fetchResult, netSubscribed, netLog, clientCalls,
                   closeCalls, threw>>

\* setActiveChannel, called by a consumer of the context.  The context is
\* published from the first render, so a consumer can call it before
\* componentDidMount; a failed construction publishes nothing.
setActiveChannelDirectWrite(ch) ==
    /\ phase # "failed"
    /\ channel' = ch
    /\ lastCall' = [op |-> "setActiveChannel", arg |-> ch]
    /\ UNCHANGED <<storage, wsConnection, phase, startedOffline, isOnline,
                   connectionRecovering, unsubscribeNetInfo, unmounted,
                   listeners, fetchState, fetchResult, netSubscribed, netLog,
                   clientCalls, closeCalls, threw, lastEvent>>

setActiveChannel(ch) ==
    /\ phase # "failed"
    /\ channel' = (IF SetStateTakesEffect
                   THEN SetActiveChannelState(ch)
                   ELSE channel)
    /\ lastCall' = [op |-> "setActiveChannel", arg |-> ch]
    /\ UNCHANGED <<storage, wsConnection, phase, startedOffline, isOnline,
                   connectionRecovering, unsubscribeNetInfo, unmounted,
                   listeners, fetchState, fetchResult, netSubscribed, netLog,
                   clientCalls, closeCalls, threw, lastEvent>>

\* componentWillUnmount.  this.unsubscribeNetInfo() is a call of null, and so
\* a TypeError that ends the method, until the fetch has resolved.  The
\* client takes off(name) either as "remove the observers of that event" or,
\* reading its one argument as a callback, removes none; off(undefined)
\* removes none.
componentWillUnmount ==
    /\ phase = "mounted"
    /\ phase' = "unmounted"
    /\ unmounted' = TRUE
    /\ \E removed \in {{"connection.recovered", "connection.changed"}, {}} :
          listeners' = listeners \ removed
    /\ IF unsubscribeNetInfo = "null"
       THEN /\ threw' = TRUE
            /\ UNCHANGED <<netSubscribed, closeCalls>>
       ELSE /\ netSubscribed' = FALSE
            /\ closeCalls' = (IF Truthy(isOfflineModeEnabled)
                              THEN closeCalls + 1 ELSE closeCalls)
            /\ UNCHANGED threw
    /\ lastCall' = [op |-> "componentWillUnmount", arg |-> "none"]
    /\ UNCHANGED <<storage, wsConnection, channel, startedOffline, isOnline,
                   connectionRecovering, unsubscribeNetInfo, fetchState,
                   fetchResult, netLog, clientCalls, lastEvent>>

Next ==
    \/ componentDidMount
    \/ \E isConnected \in BOOLEAN : NetInfoFetchThen(isConnected)
    \/ \E isConnected \in BOOLEAN : NetInfoListener(isConnected)
    \/ \E online \in BOOLEAN : OnConnectionChanged(online)
    \/ OnConnectionEstablished
    \/ OnConnectionRecovered
    \/ \E ch \in Channels : setActiveChannel(ch)
    \/ componentWillUnmount

Spec == Init /\ [][Next]_vars

----------------------------------------------------------------------------
\* Helpers for the properties.

\* The session started offline / online: the initial query has resolved.
StartedOfflineSession == fetchState = "resolved" /\ ~fetchResult
StartedOnlineSession == fetchState = "resolved" /\ fetchResult

\* The component state as one tuple.
ComponentState == <<channel, isOnline, connectionRecovering, startedOffline>>

\* The plain status notification for a reachability value.
PlainNotification(isConnected) ==
    <<IF isConnected THEN "online" ELSE "offline">>

\* Callback i of netLog is a second (or later) transition to online:
\* an online callback, then an offline one, came before it.
LaterOnlineTransition(i) ==
    /\ netLog[i].isConnected
    /\ \E k \in 1..(i - 1) :
          /\ ~netLog[k].isConnected
          /\ \E j \in 1..(k - 1) : netLog[j].isConnected

----------------------------------------------------------------------------
\* C1: once componentWillUnmount has run, no later callback changes the
\* component state (channel, isOnline, connectionRecovering, startedOffline).
\* The observers and setActiveChannel return on _unmounted; the
\* NetInfo.fetch().then callback does not test it, and its setState is
\* dropped by the host.
C1_NoStateChangeAfterUnmount ==
    [][unmounted => ComponentState' = ComponentState]_vars

\* C1 witness: the initial query resolved with true after teardown and the
\* state is still the one of the teardown.
C1_Witness ==
    /\ unmounted
    /\ lastCall = [op |-> "NetInfoFetchThen", arg |-> "true"]
    /\ isOnline = "unknown"
    /\ startedOffline

\* C2: in every reachable state connectionRecovering is true only if
\* isOnline is false.  A 'connection.changed' with online = false followed
\* by the initial query resolving with true breaks it.
C2_RecoveringOnlyWhileOffline ==
    connectionRecovering => isOnline = "false"

\* C3: before teardown, connectionRecovering of the component is true if
\* and only if the most recent client connectivity event was
\* 'connection.changed' with online = false (and it is false before the
\* first event).  A construction that failed leaves no component.
C3_RecoveringIffLastChangedOffline ==
    (phase # "failed" /\ ~unmounted) =>
        (connectionRecovering <=> lastEvent = "changed_false")

\* C3 witness: the query has resolved, a 'connection.changed' with
\* online = false was the last event, and the component is recovering.
C3_Witness ==
    /\ phase = "mounted"
    /\ fetchState = "resolved"
    /\ lastEvent = "changed_false"
    /\ connectionRecovering

\* C4: after teardown storage.close() has been called exactly once when
\* offline mode is enabled and never when it is disabled.  Teardown before
\* the initial query resolved raises before close() and breaks it.
C4_CloseExactlyOnce ==
    phase = "unmounted" =>
        closeCalls = (IF Truthy(isOfflineModeEnabled) THEN 1 ELSE 0)

\* C5: after componentWillUnmount none of the three client observers is
\* still registered.  The observer of 'connection.established' stays.
C5_AllObserversReleased ==
    phase = "unmounted" => listeners = {}

\* C6: after teardown no reachability subscription of the component is
\* active.  A fetch resolving after teardown subscribes and breaks it.
C6_NoSubscriptionAfterUnmount ==
    phase = "unmounted" => ~netSubscribed

\* C7 as stated: in a session that started offline, a second transition to
\* online (online, offline, online) does not invoke _setupConnection.
C7_SetupOnlyOnFirstOnline ==
    StartedOfflineSession =>
        \A i \in DOMAIN netLog :
            LaterOnlineTransition(i) => netLog[i].calls # <<"setup">>

\* C7 amended: in a session that started offline, every reachability
\* callback reporting online invokes _setupConnection and sends no plain
\* notification, the second transition to online included.
C7_SetupOnEveryOnline ==
    StartedOfflineSession =>
        \A i \in DOMAIN netLog :
            netLog[i].isConnected => netLog[i].calls = <<"setup">>

\* C7 witness: started offline, then online, offline, online, and the
\* second transition to online invoked _setupConnection.
C7_Witness ==
    /\ StartedOfflineSession
    /\ \E i \in DOMAIN netLog :
          LaterOnlineTransition(i) /\ netLog[i].calls = <<"setup">>

\* C8 as stated: when the initial query reports not reachable the state
\* becomes startedOffline = true and isOnline = false, and the first later
\* reachability change to true invokes _setupConnection and sends no plain
\* notification.  A query resolving after teardown leaves isOnline as it
\* was.
C8_StartedOfflineSetsUp ==
    StartedOfflineSession =>
        /\ startedOffline
        /\ (lastCall.op = "NetInfoFetchThen" => isOnline = "false")
        /\ \A i \in DOMAIN netLog :
              (netLog[i].isConnected
                 /\ \A j \in 1..(i - 1) : ~netLog[j].isConnected)
              => netLog[i].calls = <<"setup">>

\* C8 amended: when the initial query reports not reachable, startedOffline
\* is true, isOnline becomes false if the component is still mounted, and
\* the first later reachability change to true invokes _setupConnection and
\* sends no plain notification.
C8_StartedOfflineSetsUpMounted ==
    StartedOfflineSession =>
        /\ startedOffline
        /\ (lastCall.op = "NetInfoFetchThen" /\ phase = "mounted")
              => isOnline = "false"
        /\ \A i \in DOMAIN netLog :
              (netLog[i].isConnected
                 /\ \A j \in 1..(i - 1) : ~netLog[j].isConnected)
              => netLog[i].calls = <<"setup">>

\* C8 witness: started offline, an offline callback and then the first
\* online callback, which invoked _setupConnection.
C8_Witness ==
    /\ StartedOfflineSession
    /\ phase = "mounted"
    /\ Len(netLog) >= 2
    /\ ~netLog[1].isConnected
    /\ netLog[2].isConnected
    /\ netLog[2].calls = <<"setup">>

\* C9 as stated: when the initial query reports reachable, startedOffline
\* is false and every later reachability change makes exactly one plain
\* notification of the matching type (and never _setupConnection).
C9_ExactlyOneNotification ==
    StartedOnlineSession =>
        /\ ~startedOffline
        /\ \A i \in DOMAIN netLog :
              netLog[i].calls = PlainNotification(netLog[i].isConnected)

\* C9 amended: when the initial query reports reachable while the
\* component is mounted, startedOffline is false; and whenever it is false
\* after the query, _setupConnection is never invoked by a reachability
\* change, and each change makes exactly one plain notification of the
\* matching type if the client has a wsConnection and no call at all if it
\* has none.
C9_NotificationIfConnection ==
    StartedOnlineSession =>
        /\ phase = "mounted" => ~startedOffline
        /\ ~startedOffline => \A i \in DOMAIN netLog :
              /\ netLog[i].calls # <<"setup">>
              /\ netLog[i].calls =
                     (IF wsConnection
                      THEN PlainNotification(netLog[i].isConnected)
                      ELSE <<>>)

\* C9 witness: started online with a wsConnection, reachability went to
\* false and back to true, each forwarded as a plain notification.
C9_Witness ==
    /\ StartedOnlineSession
    /\ phase = "mounted"
    /\ wsConnection
    /\ Len(netLog) >= 2
    /\ netLog[1] = [isConnected |-> FALSE, calls |-> <<"offline">>]
    /\ netLog[2] = [isConnected |-> TRUE, calls |-> <<"online">>]

RECURSIVE ListenerCallsOf(_)
ListenerCallsOf(log) ==
    IF log = <<>> THEN <<>>
    ELSE log[1].calls \o ListenerCallsOf(Tail(log))

\* The operations that write the component state.
StateWriters == {"connection.changed", "connection.established",
                 "connection.recovered", "NetInfoFetchThen",
                 "setActiveChannel"}

\* C11: a storage argument that is not a LocalStorage instance fails the
\* construction, and no storage argument succeeds with a context whose
\* offlineMode is the boolean false.  Without storage the code publishes
\* undefined, the value of props.storage && ..., not false.
C11_InvalidFailsAbsentGivesFalse ==
    /\ storage = "other" => phase = "failed"
    /\ storage = "none" =>
          (phase # "failed" /\ getContext.offlineMode = "false")

\* C12: after teardown has begun setActiveChannel(X) changes none of
\* channel, isOnline, connectionRecovering, startedOffline, and the channel
\* of the context stays the one that was active at teardown.
C12_SetActiveChannelNoOpAfterUnmount ==
    [][unmounted =>
         /\ (lastCall'.op = "setActiveChannel"
               => ComponentState' = ComponentState)
         /\ getContext'.channel = getContext.channel]_vars

\* C12 witness: after teardown setActiveChannel("c2") was called and the
\* channel is still c1, after the initial query had resolved.
C12_Witness ==
    /\ unmounted
    /\ fetchState = "resolved"
    /\ lastCall = [op |-> "setActiveChannel", arg |-> "c2"]
    /\ getContext.channel = "c1"

\* C13 as stated: the initial query is made once per mount; when it
\* resolves with r the state gets isOnline = r and startedOffline = ~r,
\* exactly one notification of the matching type is delivered, and the
\* reachability callbacks come only after it.
C13_QueryThenOneNotification ==
    /\ (phase \in {"mounted", "unmounted"}) <=> (fetchState # "idle")
    /\ fetchState # "resolved" =>
          (netLog = <<>> /\ clientCalls = <<>> /\ ~netSubscribed)
    /\ lastCall.op = "NetInfoFetchThen" =>
          /\ isOnline = JsBool(fetchResult)
          /\ startedOffline = ~fetchResult
          /\ netSubscribed
    /\ fetchState = "resolved" =>
          clientCalls =
              PlainNotification(fetchResult) \o ListenerCallsOf(netLog)

\* C13 amended: as C13, but the notification of the initial reachability
\* is delivered exactly once if the client has a wsConnection and not at
\* all if client.wsConnection is null, and the state is set for sure only
\* if the component is still mounted when the query resolves.
C13_QueryThenNotificationIfConnection ==
    /\ (phase \in {"mounted", "unmounted"}) <=> (fetchState # "idle")
    /\ fetchState # "resolved" =>
          (netLog = <<>> /\ clientCalls = <<>> /\ ~netSubscribed)
    /\ lastCall.op = "NetInfoFetchThen" => netSubscribed
    /\ (lastCall.op = "NetInfoFetchThen" /\ phase = "mounted") =>
          /\ isOnline = JsBool(fetchResult)
          /\ startedOffline = ~fetchResult
    /\ fetchState = "resolved" =>
          clientCalls =
              (IF wsConnection THEN PlainNotification(fetchResult)
               ELSE <<>>) \o ListenerCallsOf(netLog)

\* C13 witness: the query resolved with false on a client with a
\* wsConnection, 'offline' was notified, and a reachability callback ran
\* after it.
C13_Witness ==
    /\ StartedOfflineSession
    /\ phase = "mounted"
    /\ wsConnection
    /\ Len(netLog) = 1
    /\ clientCalls = <<"offline">> \o netLog[1].calls
    /\ netLog[1].calls # <<>>

\* C14: storage.close() is called only after the flag is set and the
\* client observers and the reachability subscription are released: it is
\* never called while a subscription of the component is still active.
\* The observer of 'connection.established' is still registered (see C5).
C14_CloseAfterRelease ==
    closeCalls > 0 => (unmounted /\ listeners = {} /\ ~netSubscribed)

\* C15: teardown never raises an error.  Before the initial query has
\* resolved, this.unsubscribeNetInfo is null and calling it raises.
C15_UnmountNeverThrows ==
    ~threw

\* C16: after teardown has begun the component makes no further call on
\* the client.  A fetch resolving after teardown notifies the client, and
\* the listener it subscribes keeps calling it.
C16_NoClientCallAfterUnmount ==
    [][unmounted => clientCalls' = clientCalls]_vars

\* C17: a construction that fails on the storage argument leaves no
\* observer on the client.  The three observers are registered before
\* verifyStorage runs and stay.
C17_FailedConstructionLeavesNoObserver ==
    phase = "failed" => listeners = {}

\* C18: a reachability-change callback leaves the component state
\* unchanged; the state is written only by the three client observers, the
\* resolution of the initial query and setActiveChannel.
C18_ListenerLeavesState ==
    [][/\ netLog' # netLog => ComponentState' = ComponentState
       /\ ComponentState' # ComponentState =>
              lastCall'.op \in StateWriters]_vars

\* C18 witness: a reachability callback reporting online has just run and
\* the published isOnline is still false.
C18_Witness ==
    /\ lastCall = [op |-> "NetInfoListener", arg |-> "true"]
    /\ netLog # <<>>
    /\ netLog[Len(netLog)].isConnected
    /\ getContext.isOnline = "false"

====
